---- MODULE Spec2Model ----
(***************************************************************************)
(* Pointer-gesture recognizers of package gesture (src/gesture/gesture.go) *)
(* as state machines.  Every recognizer is a record of the fields of its   *)
(* Go struct; one action is one call of its Update method on the events of *)
(* one frame.  Update is a loop over the frame's events, so it is written  *)
(* as a fold of a per-event operator over the queue.                       *)
(*                                                                         *)
(* ClickEvent.Position and ClickEvent.Modifiers are copies of the input    *)
(* event's fields that no branch reads; they are left out of the records.  *)
(* Timestamps are milliseconds (time.Duration scaled by 10^6).             *)
(***************************************************************************)
EXTENDS Integers, Sequences, FiniteSets, TLC

\* ---------------------------------------------------------------- bounds
\* Latest timestamp an event may carry, in ms.
MaxTime == 300
\* Cap of Click.clicks (the counter itself is unbounded in the code).
MaxClicks == 3
\* Cap of the magnitude of the summed wheel deltas of a wheel-only history,
\* in tenths of a pixel.
MaxWheelSum == 30
\* Cap of the number of wheel events of a wheel-only history.
MaxWheelEvents == 5
\* Largest uint8 value handed to the String methods.
MaxEnumValue == 4

\* ------------------------------------------------------- program constants
\* const doubleClickDuration = 200 * time.Millisecond
doubleClickDuration == 200

\* ------------------------------------------------------------ input sets
PointerIDs == {0, 1}
\* Gaps between the timestamps of successive events, in ms.
TimeSteps == {0, 100, 200}
\* pointer.Buttons is a bit set; ButtonPrimary is the set {"Primary"}.
ButtonPrimary == {"Primary"}
NoButtons == {}
\* (Source, Buttons) of the Press events delivered.
PressDevices ==
    { <<"Mouse", ButtonPrimary>>, <<"Mouse", {"Secondary"}>>,
      <<"Mouse", {"Primary", "Secondary"}>>, <<"Touch", NoButtons>> }

\* A pointer.Event as Click reads it.
ClickPtrEvent(k, p, s, b, t) ==
    [Kind |-> k, PointerID |-> p, Source |-> s, Buttons |-> b, Time |-> t]

\* Event kinds Click.Update has no case for.
ClickUnhandledKinds == {"Move", "Scroll"}

\* The events that may arrive at time t.
ClickEventsAt(t) ==
    { ClickPtrEvent("Press", p, d[1], d[2], t) : p \in PointerIDs, d \in PressDevices }
    \cup { ClickPtrEvent("Release", p, s, NoButtons, t) :
             p \in PointerIDs, s \in {"Mouse", "Touch"} }
    \cup { ClickPtrEvent(k, p, "Mouse", NoButtons, t) :
             k \in {"Cancel", "Enter", "Leave"} \cup ClickUnhandledKinds,
             p \in PointerIDs }

\* The value of clickIn before any event was delivered.
NoEvent == ClickPtrEvent("None", 0, "Mouse", NoButtons, 0)

\* ------------------------------------------------------------------ Click
\* The zero value of struct Click.
ClickZero ==
    [clickedAt |-> 0, clicks |-> 0, pressed |-> FALSE, hovered |-> FALSE,
     entered |-> FALSE, pid |-> 0]

\* A ClickEvent; ClickEvent{Kind: KindCancel} has zero Source and NumClicks.
ClickEvent(kind, src, n) == [Kind |-> kind, Source |-> src, NumClicks |-> n]
CancelEvent == ClickEvent("KindCancel", "Mouse", 0)

\* ClickRelease judging the release by hovered alone.
ClickReleaseHoverOnly(c, e) ==
    IF ~c.pressed \/ c.pid # e.PointerID
    THEN [c |-> c, events |-> <<>>]
    ELSE [c |-> [c EXCEPT !.pressed = FALSE],
          events |-> IF c.hovered
                     THEN <<[Kind |-> "KindClick", Source |-> e.Source,
                             NumClicks |-> c.clicks]>>
                     ELSE <<[Kind |-> "KindCancel", Source |-> "Mouse",
                             NumClicks |-> 0]>>]

\* ClickRelease restarting the double-click window at the release.
ClickReleaseStampsTime(c, e) ==
    IF ~c.pressed \/ c.pid # e.PointerID
    THEN [c |-> c, events |-> <<>>]
    ELSE [c |-> [c EXCEPT !.pressed = FALSE, !.clickedAt = e.Time],
          events |-> IF ~c.entered \/ c.hovered
                     THEN <<ClickEvent("KindClick", e.Source, c.clicks)>>
                     ELSE <<CancelEvent>>]

\* case pointer.Release
ClickRelease(c, e) ==
    IF ~c.pressed \/ c.pid # e.PointerID
    THEN [c |-> c, events |-> <<>>]
    ELSE [c |-> [c EXCEPT !.pressed = FALSE],
          events |-> IF ~c.entered \/ c.hovered
                     THEN <<ClickEvent("KindClick", e.Source, c.clicks)>>
                     ELSE <<CancelEvent>>]

\* ClickCancel acting only on the owning pointer's Cancel.
ClickCancelOwnerOnly(c, e) ==
    IF c.pid # e.PointerID
    THEN [c |-> c, events |-> <<>>]
    ELSE [c |-> [c EXCEPT !.pressed = FALSE, !.hovered = FALSE, !.entered = FALSE],
          events |-> IF c.pressed THEN <<CancelEvent>> ELSE <<>>]

\* ClickCancel answering every Cancel with a Cancel event.
ClickCancelAlwaysEmits(c, e) ==
    [c |-> [c EXCEPT !.pressed = FALSE, !.hovered = FALSE, !.entered = FALSE],
     events |-> <<CancelEvent>>]

\* case pointer.Cancel
ClickCancel(c, e) ==
    [c |-> [c EXCEPT !.pressed = FALSE, !.hovered = FALSE, !.entered = FALSE],
     events |-> IF c.pressed THEN <<CancelEvent>> ELSE <<>>]

\* ClickPress with the double-click window closed at its end (<=).
ClickPressInclusive(c, e) ==
    IF c.pressed
    THEN [c |-> c, events |-> <<>>]
    ELSE IF e.Source = "Mouse" /\ e.Buttons # ButtonPrimary
    THEN [c |-> c, events |-> <<>>]
    ELSE LET c1 == IF ~c.hovered THEN [c EXCEPT !.pid = e.PointerID] ELSE c
         IN  IF c1.pid # e.PointerID
             THEN [c |-> c1, events |-> <<>>]
             ELSE LET n == IF e.Time - c1.clickedAt <= doubleClickDuration
                           THEN c1.clicks + 1
                           ELSE 1
                  IN  [c |-> [c1 EXCEPT !.pressed = TRUE, !.clicks = n,
                                        !.clickedAt = e.Time],
                       events |-> <<ClickEvent("KindPress", e.Source, n)>>]

\* case pointer.Press
ClickPress(c, e) ==
    IF c.pressed
    THEN [c |-> c, events |-> <<>>]
    ELSE IF e.Source = "Mouse" /\ e.Buttons # ButtonPrimary
    THEN [c |-> c, events |-> <<>>]
    ELSE LET c1 == IF ~c.hovered THEN [c EXCEPT !.pid = e.PointerID] ELSE c
         IN  IF c1.pid # e.PointerID
             THEN [c |-> c1, events |-> <<>>]
             ELSE LET n == IF e.Time - c1.clickedAt < doubleClickDuration
                           THEN c1.clicks + 1
                           ELSE 1
                  IN  [c |-> [c1 EXCEPT !.pressed = TRUE, !.clicks = n,
                                        !.clickedAt = e.Time],
                       events |-> <<ClickEvent("KindPress", e.Source, n)>>]

\* ClickLeave adopting the leaving pointer also while pressed.
ClickLeaveAdopts(c, e) ==
    [c |-> [c EXCEPT !.pid = e.PointerID, !.hovered = FALSE], events |-> <<>>]

\* case pointer.Leave
ClickLeave(c, e) ==
    LET c1 == IF ~c.pressed THEN [c EXCEPT !.pid = e.PointerID] ELSE c
    IN  [c |-> IF c1.pid = e.PointerID THEN [c1 EXCEPT !.hovered = FALSE] ELSE c1,
         events |-> <<>>]

\* case pointer.Enter
ClickEnter(c, e) ==
    LET c1 == IF ~c.pressed THEN [c EXCEPT !.pid = e.PointerID] ELSE c
    IN  [c |-> IF c1.pid = e.PointerID
               THEN [c1 EXCEPT !.hovered = TRUE, !.entered = TRUE]
               ELSE c1,
         events |-> <<>>]

\* The body of the loop of Click.Update: the switch on e.Kind.
ClickHandle(c, e) ==
    CASE e.Kind = "Release" -> ClickRelease(c, e)
      [] e.Kind = "Cancel"  -> ClickCancel(c, e)
      [] e.Kind = "Press"   -> ClickPress(c, e)
      [] e.Kind = "Leave"   -> ClickLeave(c, e)
      [] e.Kind = "Enter"   -> ClickEnter(c, e)
      [] OTHER              -> [c |-> c, events |-> <<>>]

\* Click.Update: the loop over q.Events(c), appending to events.
RECURSIVE ClickUpdate(_, _)
ClickUpdate(c, q) ==
    IF q = <<>>
    THEN [c |-> c, events |-> <<>>]
    ELSE LET r == ClickHandle(c, Head(q))
             rest == ClickUpdate(r.c, Tail(q))
         IN  [c |-> rest.c, events |-> r.events \o rest.events]

\* Click.Pressed and Click.Hovered
ClickPressed(c) == c.pressed
ClickHovered(c) == c.hovered

\* ------------------------------------------------------------------- Drag
\* const touchSlop = unit.Dp(3)
touchSlop == 3

\* unit.Metric.Dp: device-independent units to pixels, for the whole-number
\* PxPerDp values used here (no rounding takes place).
Dp(cfg, v) == cfg.PxPerDp * v

\* The metrics a frame may carry.
Metrics == { [PxPerDp |-> 1], [PxPerDp |-> 2] }

Axes == {"Horizontal", "Vertical", "Both"}

\* f32.Point; the coordinates used are whole numbers, exact in float32.
Pt(x, y) == [X |-> x, Y |-> y]
Sub(p, q) == Pt(p.X - q.X, p.Y - q.Y)

\* Positions of the events delivered to Drag: from (0,0), (3,0) is exactly
\* the slop away at one pixel per dp and (3,1) is beyond it.
DragPositions == { Pt(0, 0), Pt(3, 0), Pt(3, 1) }

\* e.Priority < pointer.Grabbed
BelowGrabbed(e) == e.Priority # "Grabbed"

\* A pointer.Event as Drag reads and forwards it.
DragPtrEvent(k, p, s, b, pr, pos) ==
    [Kind |-> k, PointerID |-> p, Source |-> s, Buttons |-> b, Priority |-> pr,
     Position |-> pos]

\* Event kinds Drag.Update has no case for.
DragUnhandledKinds == {"Move", "Enter", "Leave", "Scroll"}

DragPressDevices ==
    { <<"Mouse", ButtonPrimary>>, <<"Mouse", {"Secondary"}>>, <<"Touch", NoButtons>> }

DragEvents ==
    { DragPtrEvent("Press", p, d[1], d[2], "Shared", pos) :
         p \in PointerIDs, d \in DragPressDevices, pos \in DragPositions }
    \cup { DragPtrEvent("Drag", p, "Touch", NoButtons, pr, pos) :
             p \in PointerIDs, pr \in {"Shared", "Grabbed"}, pos \in DragPositions }
    \cup { DragPtrEvent(k, p, "Touch", NoButtons, "Shared", pos) :
             k \in {"Release", "Cancel"}, p \in PointerIDs, pos \in DragPositions }
    \cup { DragPtrEvent(k, p, "Mouse", NoButtons, "Shared", Pt(3, 1)) :
             k \in DragUnhandledKinds, p \in PointerIDs }

\* The zero value of struct Drag.
DragZero ==
    [dragging |-> FALSE, pressed |-> FALSE, pid |-> 0, start |-> Pt(0, 0),
     grab |-> FALSE]

\* A step of the loop that ends in `continue`: nothing is appended.
Skip(d) == [d |-> d, events |-> <<>>]
\* A step that reaches events = append(events, e).
Forward(d, e) == [d |-> d, events |-> <<e>>]

\* DragPress setting pressed before it looks at the button.
DragPressAnyButton(d, e) ==
    LET d1 == [d EXCEPT !.pressed = TRUE]
    IN  IF ~(e.Buttons = ButtonPrimary \/ e.Source = "Touch") \/ d1.dragging
        THEN Skip(d1)
        ELSE Forward([d1 EXCEPT !.dragging = TRUE, !.pid = e.PointerID,
                                !.start = e.Position], e)

\* case pointer.Press
DragPress(d, e) ==
    IF ~(e.Buttons = ButtonPrimary \/ e.Source = "Touch")
    THEN Skip(d)
    ELSE LET d1 == [d EXCEPT !.pressed = TRUE]
         IN  IF d1.dragging
             THEN Skip(d1)
             ELSE Forward([d1 EXCEPT !.dragging = TRUE, !.pid = e.PointerID,
                                     !.start = e.Position], e)

\* DragAxis with the two axes exchanged.
DragAxisSwapped(d, e, axis) ==
    CASE axis = "Horizontal" -> [e EXCEPT !.Position.X = d.start.X]
      [] axis = "Vertical"   -> [e EXCEPT !.Position.Y = d.start.Y]
      [] OTHER               -> e

\* The switch on axis: the coordinate across the axis is set to the start's.
DragAxis(d, e, axis) ==
    CASE axis = "Horizontal" -> [e EXCEPT !.Position.Y = d.start.Y]
      [] axis = "Vertical"   -> [e EXCEPT !.Position.X = d.start.X]
      [] OTHER               -> e

\* DragDrag requesting the grab already at the slop distance (>=).
DragDragAtSlop(d, e, axis, cfg) ==
    IF ~d.dragging \/ e.PointerID # d.pid
    THEN Skip(d)
    ELSE LET e1 == DragAxis(d, e, axis)
             diff == Sub(e1.Position, d.start)
             slop == Dp(cfg, touchSlop)
         IN  IF BelowGrabbed(e1) /\ diff.X * diff.X + diff.Y * diff.Y >= slop * slop
             THEN Forward([d EXCEPT !.grab = TRUE], e1)
             ELSE Forward(d, e1)

\* case pointer.Drag
DragDrag(d, e, axis, cfg) ==
    IF ~d.dragging \/ e.PointerID # d.pid
    THEN Skip(d)
    ELSE LET e1 == DragAxis(d, e, axis)
             diff == Sub(e1.Position, d.start)
             slop == Dp(cfg, touchSlop)
         IN  IF BelowGrabbed(e1) /\ diff.X * diff.X + diff.Y * diff.Y > slop * slop
             THEN Forward([d EXCEPT !.grab = TRUE], e1)
             ELSE Forward(d, e1)

\* DragRelease leaving the grab request as it is.
DragReleaseKeepsGrab(d, e) ==
    LET d1 == [d EXCEPT !.pressed = FALSE]
    IN  IF ~d1.dragging \/ e.PointerID # d1.pid
        THEN Skip(d1)
        ELSE Forward([d1 EXCEPT !.dragging = FALSE], e)

\* DragRelease ending the drag on any pointer's Release or Cancel.
DragReleaseAnyPointer(d, e) ==
    LET d1 == [d EXCEPT !.pressed = FALSE]
    IN  IF ~d1.dragging
        THEN Skip(d1)
        ELSE Forward([d1 EXCEPT !.dragging = FALSE, !.grab = FALSE], e)

\* case pointer.Release, pointer.Cancel
DragRelease(d, e) ==
    LET d1 == [d EXCEPT !.pressed = FALSE]
    IN  IF ~d1.dragging \/ e.PointerID # d1.pid
        THEN Skip(d1)
        ELSE Forward([d1 EXCEPT !.dragging = FALSE, !.grab = FALSE], e)

\* The body of the loop of Drag.Update: the switch on e.Kind, then the append
\* every event reaches that was not skipped by `continue`.
DragHandle(d, e, axis, cfg) ==
    CASE e.Kind = "Press"                -> DragPress(d, e)
      [] e.Kind = "Drag"                 -> DragDrag(d, e, axis, cfg)
      [] e.Kind \in {"Release", "Cancel"} -> DragRelease(d, e)
      [] OTHER                           -> Forward(d, e)

\* Drag.Update: the loop over q.Events(d).
RECURSIVE DragUpdate(_, _, _, _)
DragUpdate(d, cfg, q, axis) ==
    IF q = <<>>
    THEN [d |-> d, events |-> <<>>]
    ELSE LET r == DragHandle(d, Head(q), axis, cfg)
             rest == DragUpdate(r.d, cfg, Tail(q), axis)
         IN  [d |-> rest.d, events |-> r.events \o rest.events]

\* Drag.Dragging and Drag.Pressed
DragDragging(d) == d.dragging
DragPressed(d) == d.pressed

\* ----------------------------------------------------------------- Scroll
\* Positions delivered to Scroll are in half pixels (5 is 2.5 px), wheel deltas
\* and the leftover Scroll.scroll in tenths (3 is 0.3); s.last, the slop and
\* the returned distance are whole pixels.

\* runtime.GOOS of the build.
GOOS == "linux"

\* int(math.Round(float64(v))) of v half pixels: to the nearest whole pixel,
\* halves away from zero.
Round(h) == IF h >= 0 THEN (h + 1) \div 2 ELSE -((1 - h) \div 2)

\* Trunc rounding down instead of toward zero.
TruncFloor(x) == x \div 10

\* int(s.scroll) of a float32 of x tenths: truncation toward zero.
Trunc(x) == IF x >= 0 THEN x \div 10 ELSE -((-x) \div 10)

\* fling.Extrapolation: the retained samples, kept as the earliest and the
\* latest sampled position (half pixels).
EstimatorZero == [n |-> 0, first |-> 0, last |-> 0]

\* Extrapolation.Sample
Sample(est, v) ==
    IF est.n = 0
    THEN [n |-> 1, first |-> v, last |-> v]
    ELSE [est EXCEPT !.n = 2, !.last = v]

\* Extrapolation.Estimate: Distance is the net signed displacement between the
\* earliest and the latest sample (half pixels); Velocity is in whole pixels
\* per frame, over a sample window of one frame, truncated.
Estimate(est) ==
    LET d == est.last - est.first
    IN  [Distance |-> d, Velocity |-> IF d >= 0 THEN d \div 2 ELSE -((-d) \div 2)]

\* fling.Animation{}: inactive.
AnimationZero == [active |-> FALSE, v |-> 0]

\* Animation.Active
Active(f) == f.active

\* Animation.Start
Start(f, cfg, velocity) == [active |-> velocity # 0, v |-> velocity]

\* Animation.Tick: the distance covered in this frame; the velocity halves
\* (toward zero) each frame and the animation ends when it reaches zero.
Tick(f) ==
    IF ~f.active
    THEN [f |-> f, delta |-> 0]
    ELSE LET v1 == IF f.v >= 0 THEN f.v \div 2 ELSE -((-f.v) \div 2)
         IN  [f |-> [active |-> v1 # 0, v |-> v1], delta |-> f.v - v1]

\* The zero value of struct Scroll (axis Horizontal is iota 0).
ScrollZero ==
    [dragging |-> FALSE, axis |-> "Horizontal", estimator |-> EstimatorZero,
     flinger |-> AnimationZero, pid |-> 0, grab |-> FALSE, last |-> 0,
     scroll |-> 0]

\* Scroll.val
Val(s, p) == IF s.axis = "Horizontal" THEN p.X ELSE p.Y

\* ScrollStop ending the drag as well.
ScrollStopEndsDrag(s) ==
    [s EXCEPT !.flinger = AnimationZero, !.dragging = FALSE, !.grab = FALSE]

\* Scroll.Stop
ScrollStop(s) == [s EXCEPT !.flinger = AnimationZero]

\* ScrollState looking at dragging only.
ScrollStateNoFling(s) == IF s.dragging THEN "StateDragging" ELSE "StateIdle"

\* Scroll.State
ScrollState(s) ==
    CASE Active(s.flinger) -> "StateFlinging"
      [] s.dragging        -> "StateDragging"
      [] OTHER             -> "StateIdle"

\* A step of the loop of Scroll.Update: the recognizer and what it adds to total.
Step(s, d) == [s |-> s, total |-> d]

\* ScrollPress leaving a running fling alone.
ScrollPressNoStop(s, e) ==
    IF s.dragging
    THEN Step(s, 0)
    ELSE IF e.Source # "Touch" /\ GOOS # "android"
    THEN Step(s, 0)
    ELSE LET v == Val(s, e.Position)
         IN  Step([s EXCEPT !.estimator = Sample(EstimatorZero, v),
                            !.last = Round(v),
                            !.dragging = TRUE,
                            !.pid = e.PointerID], 0)

\* ScrollPress taking a touch Press also while a drag is in progress.
ScrollPressAlways(s, e) ==
    IF e.Source # "Touch" /\ GOOS # "android"
    THEN Step(s, 0)
    ELSE LET s1 == ScrollStop(s)
             v == Val(s1, e.Position)
         IN  Step([s1 EXCEPT !.estimator = Sample(EstimatorZero, v),
                             !.last = Round(v),
                             !.dragging = TRUE,
                             !.pid = e.PointerID], 0)

\* case pointer.Press
ScrollPress(s, e) ==
    IF s.dragging
    THEN Step(s, 0)
    ELSE IF e.Source # "Touch" /\ GOOS # "android"
    THEN Step(s, 0)
    ELSE LET s1 == ScrollStop(s)
             v == Val(s1, e.Position)
         IN  Step([s1 EXCEPT !.estimator = Sample(EstimatorZero, v),
                             !.last = Round(v),
                             !.dragging = TRUE,
                             !.pid = e.PointerID], 0)

\* ScrollCancel leaving the grab request as it is.
ScrollCancelKeepsGrab(s) == Step([s EXCEPT !.dragging = FALSE], 0)

\* case pointer.Cancel, which case pointer.Release falls through to
ScrollCancel(s) == Step([s EXCEPT !.dragging = FALSE, !.grab = FALSE], 0)

\* ScrollRelease starting the fling at the slop already.
ScrollReleaseAtSlop(s, e, cfg) ==
    IF s.pid # e.PointerID
    THEN Step(s, 0)
    ELSE LET fling == Estimate(s.estimator)
             slop == 2 * Dp(cfg, touchSlop)
             d == fling.Distance
             s1 == IF d <= -slop \/ d >= slop
                   THEN [s EXCEPT !.flinger = Start(s.flinger, cfg, fling.Velocity)]
                   ELSE s
         IN  Step([s1 EXCEPT !.dragging = FALSE, !.grab = FALSE], 0)

\* case pointer.Release; the slop is whole pixels, Distance half pixels
ScrollRelease(s, e, cfg) ==
    IF s.pid # e.PointerID
    THEN Step(s, 0)
    ELSE LET fling == Estimate(s.estimator)
             slop == 2 * Dp(cfg, touchSlop)
             d == fling.Distance
             s1 == IF d < -slop \/ d > slop
                   THEN [s EXCEPT !.flinger = Start(s.flinger, cfg, fling.Velocity)]
                   ELSE s
         IN  ScrollCancel(s1)

\* case pointer.Scroll
ScrollWheel(s, e) ==
    LET sum == CASE s.axis = "Horizontal" -> s.scroll + e.Scroll.X
                 [] s.axis = "Vertical"   -> s.scroll + e.Scroll.Y
                 [] OTHER                 -> s.scroll
        iscroll == Trunc(sum)
    IN  Step([s EXCEPT !.scroll = sum - 10 * iscroll], iscroll)

\* ScrollDrag recording the position of every Drag event, so that the
\* distance covered below Grabbed priority is dropped.
ScrollDragConsumeSlop(s, e, cfg) ==
    IF ~s.dragging \/ s.pid # e.PointerID
    THEN Step(s, 0)
    ELSE LET val == Val(s, e.Position)
             s1 == [s EXCEPT !.estimator = Sample(s.estimator, val)]
             v == Round(val)
             dist == s1.last - v
             slop == Dp(cfg, touchSlop)
         IN  IF BelowGrabbed(e)
             THEN IF dist >= slop \/ -slop >= dist
                  THEN Step([s1 EXCEPT !.grab = TRUE, !.last = v], 0)
                  ELSE Step([s1 EXCEPT !.last = v], 0)
             ELSE Step([s1 EXCEPT !.last = v], dist)

\* case pointer.Drag
ScrollDrag(s, e, cfg) ==
    IF ~s.dragging \/ s.pid # e.PointerID
    THEN Step(s, 0)
    ELSE LET val == Val(s, e.Position)
             s1 == [s EXCEPT !.estimator = Sample(s.estimator, val)]
             v == Round(val)
             dist == s1.last - v
             slop == Dp(cfg, touchSlop)
         IN  IF BelowGrabbed(e)
             THEN IF dist >= slop \/ -slop >= dist
                  THEN Step([s1 EXCEPT !.grab = TRUE], 0)
                  ELSE Step(s1, 0)
             ELSE Step([s1 EXCEPT !.last = v], dist)

\* The body of the loop of Scroll.Update: the switch on e.Kind.
ScrollHandle(s, e, cfg) ==
    CASE e.Kind = "Press"   -> ScrollPress(s, e)
      [] e.Kind = "Release" -> ScrollRelease(s, e, cfg)
      [] e.Kind = "Cancel"  -> ScrollCancel(s)
      [] e.Kind = "Scroll"  -> ScrollWheel(s, e)
      [] e.Kind = "Drag"    -> ScrollDrag(s, e, cfg)
      [] OTHER              -> Step(s, 0)

\* The loop of Scroll.Update over q.Events(s).
RECURSIVE ScrollEvents(_, _, _)
ScrollEvents(s, cfg, q) ==
    IF q = <<>>
    THEN Step(s, 0)
    ELSE LET r == ScrollHandle(s, Head(q), cfg)
             rest == ScrollEvents(r.s, cfg, Tail(q))
         IN  Step(rest.s, r.total + rest.total)

\* ScrollUpdate without the tick of the fling animation.
ScrollUpdateNoTick(s, cfg, q, axis) ==
    IF s.axis # axis
    THEN Step([s EXCEPT !.axis = axis], 0)
    ELSE ScrollEvents(s, cfg, q)

\* ScrollUpdate recording the new axis and then going on with the frame.
ScrollUpdateNoReset(s, cfg, q, axis) ==
    LET r == ScrollEvents([s EXCEPT !.axis = axis], cfg, q)
        f == Tick(r.s.flinger)
    IN  Step([r.s EXCEPT !.flinger = f.f], r.total + f.delta)

\* Scroll.Update: a call with another axis than the last only records the
\* axis; otherwise the events are handled and the fling animation ticks.
ScrollUpdate(s, cfg, q, axis) ==
    IF s.axis # axis
    THEN Step([s EXCEPT !.axis = axis], 0)
    ELSE LET r == ScrollEvents(s, cfg, q)
             f == Tick(r.s.flinger)
         IN  Step([r.s EXCEPT !.flinger = f.f], r.total + f.delta)

\* A pointer.Event as Scroll reads it.
ScrollPtrEvent(k, p, src, pr, pos, sc) ==
    [Kind |-> k, PointerID |-> p, Source |-> src, Priority |-> pr,
     Position |-> pos, Scroll |-> sc]

\* Positions (half pixels): along X 0, 2.5 and 6 px, along Y 0, 0 and 6 px.
ScrollPositions == { Pt(0, 0), Pt(5, 0), Pt(12, 12) }

\* Wheel deltas (tenths).
WheelDeltas == { Pt(3, 15), Pt(-3, -7) }

\* Event kinds Scroll.Update has no case for.
ScrollUnhandledKinds == {"Move", "Enter", "Leave"}

\* The axes Scroll.Update is called with in touch frames.
ScrollAxes == {"Horizontal", "Vertical"}

WheelEvent(d) == ScrollPtrEvent("Scroll", 0, "Mouse", "Shared", Pt(0, 0), d)

\* A call of Scroll.Update: the frame's queue, the axis and the metric.
ScrollCall(q, axis, cfg) == [op |-> "Update", q |-> q, axis |-> axis, cfg |-> cfg]

\* The frames of wheel input: one wheel event or an event of a kind without
\* a case, under any axis.
WheelCalls ==
    { ScrollCall(<<WheelEvent(d)>>, axis, [PxPerDp |-> 1]) :
         d \in WheelDeltas, axis \in Axes }
    \cup { ScrollCall(<<ScrollPtrEvent(k, 0, "Mouse", "Shared", Pt(0, 0), Pt(0, 0))>>,
                      axis, [PxPerDp |-> 1]) :
             k \in ScrollUnhandledKinds, axis \in Axes }

\* The frames of touch input under axis `axis`: a Press, Drag, Release or
\* Cancel of either pointer, an event of a kind without a case, a wheel event
\* of one and a half pixels, or no event at all.  Drag events below Grabbed
\* priority and Release events, which compare with the slop, come under both
\* metrics.
TouchCalls(axis) ==
    { ScrollCall(<<ScrollPtrEvent("Press", p, "Touch", "Shared", pos, Pt(0, 0))>>,
                 axis, [PxPerDp |-> 1]) : p \in PointerIDs, pos \in ScrollPositions }
    \cup { ScrollCall(<<ScrollPtrEvent("Press", 1, "Mouse", "Shared", Pt(5, 0), Pt(0, 0))>>,
                      axis, [PxPerDp |-> 1]) }
    \cup { ScrollCall(<<ScrollPtrEvent("Drag", p, "Touch", "Grabbed", pos, Pt(0, 0))>>,
                      axis, [PxPerDp |-> 1]) : p \in PointerIDs, pos \in ScrollPositions }
    \cup { ScrollCall(<<ScrollPtrEvent("Drag", p, "Touch", "Shared", pos, Pt(0, 0))>>,
                      axis, cfg) :
             p \in PointerIDs, pos \in ScrollPositions, cfg \in Metrics }
    \cup { ScrollCall(<<ScrollPtrEvent("Release", p, "Touch", "Shared", Pt(0, 0), Pt(0, 0))>>,
                      axis, cfg) : p \in PointerIDs, cfg \in Metrics }
    \cup { ScrollCall(<<ScrollPtrEvent("Cancel", p, "Touch", "Shared", Pt(0, 0), Pt(0, 0))>>,
                      axis, [PxPerDp |-> 1]) : p \in PointerIDs }
    \cup { ScrollCall(<<ScrollPtrEvent("Move", 0, "Mouse", "Shared", Pt(5, 0), Pt(0, 0))>>,
                      axis, [PxPerDp |-> 1]) }
    \cup { ScrollCall(<<WheelEvent(Pt(15, 0))>>, axis, [PxPerDp |-> 1]),
           ScrollCall(<<>>, axis, [PxPerDp |-> 1]) }

\* The frames that come with another axis than the recognizer's.
AxisChangeCalls(axis) ==
    { ScrollCall(q, a, [PxPerDp |-> 1]) :
         q \in { <<WheelEvent(Pt(15, 0))>>,
                 <<ScrollPtrEvent("Press", 1, "Touch", "Shared", Pt(12, 12), Pt(0, 0))>>,
                 <<ScrollPtrEvent("Cancel", 0, "Touch", "Shared", Pt(0, 0), Pt(0, 0))>> },
         a \in ScrollAxes \ {axis} }

\* ---------------------------------------------------------------- String
\* The constants of Axis, ClickKind and ScrollState (iota).
Horizontal == 0
Vertical == 1
Both == 2
KindPress == 0
KindClick == 1
KindCancel == 2
StateIdle == 0
StateDragging == 1
StateFlinging == 2

\* The outcome of a String call: a name, or a panic.
Returned(name) == [panic |-> FALSE, s |-> name]
Panicked(msg) == [panic |-> TRUE, s |-> msg]

\* Axis.String
AxisString(a) ==
    CASE a = Horizontal -> Returned("Horizontal")
      [] a = Vertical   -> Returned("Vertical")
      [] OTHER          -> Panicked("invalid Axis")

\* ClickKind.String
ClickKindString(ct) ==
    CASE ct = KindPress  -> Returned("TypePress")
      [] ct = KindClick  -> Returned("TypeClick")
      [] ct = KindCancel -> Returned("TypeCancel")
      [] OTHER           -> Panicked("invalid ClickType")

\* ScrollState.String
ScrollStateString(s) ==
    CASE s = StateIdle     -> Returned("StateIdle")
      [] s = StateDragging -> Returned("StateDragging")
      [] s = StateFlinging -> Returned("StateFlinging")
      [] OTHER             -> Panicked("unreachable")

\* The uint8 values handed to the String methods.
EnumValues == 0..MaxEnumValue

\* ------------------------------------------------------------------ Enum
\* The keys of the Enum, in the order Layout registered them in e.keys.
EnumKeys == <<"a", "b">>

\* The zero value of struct Enum, with one enumKey per registered key; keys[i]
\* is the Click recognizer of EnumKeys[i].
EnumZero ==
    [Value |-> "", hovered |-> "", hovering |-> FALSE, focus |-> "",
     focused |-> FALSE, keys |-> [i \in 1..Len(EnumKeys) |-> ClickZero]]

\* The running state of Enum.Update: the Enum and the local `changed`.
EnumStep(e, changed) == [e |-> e, changed |-> changed]

\* if state.key != e.Value { e.Value = state.key; changed = true }
EnumSelect(r, k) ==
    IF k # r.e.Value
    THEN EnumStep([r.e EXCEPT !.Value = k], TRUE)
    ELSE r

\* The switch on ev.Kind of the events of state.click.Update; the FocusOp
\* added for a mouse press goes to the operation list.
EnumClickEvent(r, k, ev) ==
    IF ev.Kind = "KindClick" THEN EnumSelect(r, k) ELSE r

\* A key.FocusEvent and a key.Event as Enum.Update reads them.
FocusEvent(focus) == [Type |-> "FocusEvent", Focus |-> focus, Name |-> "", State |-> ""]
KeyEvent(name, state) == [Type |-> "Event", Focus |-> FALSE, Name |-> name, State |-> state]

\* The type switch on the events of gtx.Events(&state.tag).
EnumKeyEvent(r, k, ev) ==
    IF ev.Type = "FocusEvent"
    THEN IF ev.Focus
         THEN EnumStep([r.e EXCEPT !.focused = TRUE, !.focus = k], r.changed)
         ELSE IF k = r.e.focus
         THEN EnumStep([r.e EXCEPT !.focused = FALSE], r.changed)
         ELSE r
    ELSE IF ~r.e.focused \/ ev.State # "Release"
    THEN r
    ELSE IF ev.Name # "NameReturn" /\ ev.Name # "NameSpace"
    THEN r
    ELSE EnumSelect(r, k)

\* The two inner loops of Enum.Update for one key.
RECURSIVE EnumClickEvents(_, _, _)
EnumClickEvents(r, k, evs) ==
    IF evs = <<>> THEN r
    ELSE EnumClickEvents(EnumClickEvent(r, k, Head(evs)), k, Tail(evs))

RECURSIVE EnumKeyEvents(_, _, _)
EnumKeyEvents(r, k, evs) ==
    IF evs = <<>> THEN r
    ELSE EnumKeyEvents(EnumKeyEvent(r, k, Head(evs)), k, Tail(evs))

\* The body of the loop over e.keys for key number i of frame gtx.
EnumKey(r, i, gtx) ==
    LET k == EnumKeys[i]
        cu == ClickUpdate(r.e.keys[i], gtx.pointer[i])
        r1 == EnumStep([r.e EXCEPT !.keys[i] = cu.c], r.changed)
        r2 == EnumClickEvents(r1, k, cu.events)
        r3 == EnumKeyEvents(r2, k, gtx.key[i])
    IN  IF ClickHovered(cu.c)
        THEN EnumStep([r3.e EXCEPT !.hovered = k, !.hovering = TRUE], r3.changed)
        ELSE r3

\* The loop over e.keys, from key number i on.
RECURSIVE EnumKeysFrom(_, _, _)
EnumKeysFrom(r, i, gtx) ==
    IF i > Len(EnumKeys) THEN r
    ELSE EnumKeysFrom(EnumKey(r, i, gtx), i + 1, gtx)

\* A frame: whether gtx.Queue is set and, per key, the pointer events of its
\* Click recognizer and the events of its tag; a frame without a queue
\* delivers no events.
Frame(enabled, ptr, key) ==
    [enabled |-> enabled,
     pointer |-> IF enabled THEN ptr ELSE [i \in 1..Len(EnumKeys) |-> <<>>],
     key |-> IF enabled THEN key ELSE [i \in 1..Len(EnumKeys) |-> <<>>]]

\* Enum.Update
EnumUpdate(e, gtx) ==
    LET e1 == IF gtx.enabled THEN e ELSE [e EXCEPT !.focused = FALSE]
        e2 == [e1 EXCEPT !.hovering = FALSE]
    IN  EnumKeysFrom(EnumStep(e2, FALSE), 1, gtx)

\* The pointer events of one key in a frame: none, or a whole tap.
EnumPointerQueues ==
    { <<>>,
      <<ClickPtrEvent("Press", 0, "Touch", NoButtons, 0),
        ClickPtrEvent("Release", 0, "Touch", NoButtons, 0)>> }

\* The events of one key's tag in a frame.
EnumKeyQueues ==
    { <<>>, <<FocusEvent(TRUE)>>, <<FocusEvent(FALSE)>>,
      <<KeyEvent("NameReturn", "Release")>>, <<KeyEvent("NameSpace", "Press")>> }

\* The frames delivered to Enum.Update.
EnumFrames ==
    { Frame(TRUE, ptr, key) :
        ptr \in [1..Len(EnumKeys) -> EnumPointerQueues],
        key \in [1..Len(EnumKeys) -> EnumKeyQueues] }
    \cup { Frame(FALSE, [i \in 1..Len(EnumKeys) |-> <<>>],
                 [i \in 1..Len(EnumKeys) |-> <<>>]) }

\* The frame without events under axis `axis`.
EmptyCalls(axis) == { ScrollCall(<<>>, axis, [PxPerDp |-> 1]) }

\* ------------------------------------------------------------------ Hover
\* The zero value of struct Hover.
HoverZero == [entered |-> FALSE, pid |-> 0]

\* A pointer.Event as Hover reads it.
HoverPtrEvent(k, p) == [Kind |-> k, PointerID |-> p]

\* HoverLeave ending the hover for any pointer's Leave or Cancel.
HoverLeaveAnyPointer(h, e) == [h EXCEPT !.entered = FALSE]

\* case pointer.Leave, pointer.Cancel
HoverLeave(h, e) ==
    IF h.entered /\ h.pid = e.PointerID THEN [h EXCEPT !.entered = FALSE] ELSE h

\* case pointer.Enter
HoverEnter(h, e) ==
    LET h1 == IF ~h.entered THEN [h EXCEPT !.pid = e.PointerID] ELSE h
    IN  IF h1.pid = e.PointerID THEN [h1 EXCEPT !.entered = TRUE] ELSE h1

\* The switch on e.Kind of Hover.Update.
HoverHandle(h, e) ==
    CASE e.Kind \in {"Leave", "Cancel"} -> HoverLeave(h, e)
      [] e.Kind = "Enter"               -> HoverEnter(h, e)
      [] OTHER                          -> h

\* The loop of Hover.Update over q.Events(h).
RECURSIVE HoverEvents(_, _)
HoverEvents(h, q) ==
    IF q = <<>> THEN h ELSE HoverEvents(HoverHandle(h, Head(q)), Tail(q))

\* Hover.Update: the recognizer afterwards and the value returned.
HoverUpdate(h, q) ==
    LET h1 == HoverEvents(h, q) IN [h |-> h1, r |-> h1.entered]

\* The events delivered to Hover: Enter, Leave and Cancel of either pointer
\* and a kind without a case.
HoverPtrEvents ==
    { HoverPtrEvent(k, p) : k \in {"Enter", "Leave", "Cancel", "Move"}, p \in PointerIDs }

\* The frames: no event, one event or two events.
HoverQueues ==
    { <<>> } \cup { <<e>> : e \in HoverPtrEvents }
    \cup { <<e1, e2>> : e1 \in HoverPtrEvents, e2 \in HoverPtrEvents }

\* -------------------------------------------------------------- Draggable
\* The zero value of struct Draggable: the Drag recognizer, the click
\* position and the position.
DraggableZero == [drag |-> DragZero, click |-> Pt(0, 0), pos |-> Pt(0, 0)]

\* DraggableEvent leaving the position alone on a Release.
DraggableEventDragOnly(r, ev) ==
    CASE ev.Kind = "Press" -> [r EXCEPT !.d.click = ev.Position, !.pos = Pt(0, 0)]
      [] ev.Kind = "Drag"  -> [r EXCEPT !.pos = Sub(ev.Position, r.d.click)]
      [] OTHER             -> r

\* The switch on ev.Kind in Draggable.Update; r holds the Draggable and the
\* local pos.
DraggableEvent(r, ev) ==
    CASE ev.Kind = "Press" -> [r EXCEPT !.d.click = ev.Position, !.pos = Pt(0, 0)]
      [] ev.Kind \in {"Drag", "Release"} ->
            [r EXCEPT !.pos = Sub(ev.Position, r.d.click)]
      [] OTHER -> r

\* The loop over the events d.drag.Update returned.
RECURSIVE DraggableEvents(_, _)
DraggableEvents(r, evs) ==
    IF evs = <<>> THEN r ELSE DraggableEvents(DraggableEvent(r, Head(evs)), Tail(evs))

\* The loop over gtx.Queue.Events(&d.handle): the first transfer.RequestEvent.
RECURSIVE Requested(_)
Requested(evs) ==
    IF evs = <<>>
    THEN [mime |-> "", requested |-> FALSE]
    ELSE IF Head(evs).Type = "RequestEvent"
    THEN [mime |-> Head(evs).Mime, requested |-> TRUE]
    ELSE Requested(Tail(evs))

\* Draggable.Update on a frame with pointer events `pointer` for the Drag
\* recognizer and events `handle` for the handle: the Draggable afterwards,
\* what d.drag.Update returned, and the result.
DraggableUpdate(d, gtx) ==
    LET du == DragUpdate(d.drag, gtx.cfg, gtx.pointer, "Both")
        r == DraggableEvents([d |-> [d EXCEPT !.drag = du.d], pos |-> d.pos], du.events)
    IN  [d |-> [r.d EXCEPT !.pos = r.pos], forwarded |-> du.events,
         out |-> Requested(gtx.handle)]

\* Draggable.Pos
DraggablePos(d) == d.pos

\* The frames of a Draggable: one pointer event, none, or a Press and a Drag
\* of pointer 0 together; with or without a transfer request.
DraggableFrames ==
    { [cfg |-> [PxPerDp |-> 1], pointer |-> q, handle |-> h] :
        q \in { <<>> } \cup { <<e>> : e \in DragEvents }
              \cup { << DragPtrEvent("Press", 0, "Touch", NoButtons, "Shared", p1),
                        DragPtrEvent("Drag", 0, "Touch", NoButtons, "Shared", p2) >> :
                       p1 \in DragPositions, p2 \in DragPositions },
        h \in { <<>>, <<[Type |-> "RequestEvent", Mime |-> "text/plain"]>> } }

\* ------------------------------------------------------------------ state
VARIABLES
    click,      \* the Click recognizer
    clickIn,    \* the event of the last Click.Update call
    clickPre,   \* the recognizer before that call
    clickOut,   \* the events that call returned
    clickHist   \* what the delivered events and returned events showed so far

clickVars == <<click, clickIn, clickPre, clickOut, clickHist>>

VARIABLES
    drag,       \* the Drag recognizer
    dragIn,     \* the last Drag.Update call: its event, axis and metric
    dragPre,    \* the recognizer before that call
    dragOut,    \* the events that call returned
    dragHist    \* what the delivered and returned events showed so far

dragVars == <<drag, dragIn, dragPre, dragOut, dragHist>>

\* A Press the recognizer answered with a KindPress event: its time and count.
NoPress == [valid |-> FALSE, t |-> 0, n |-> 0]

ClickHistZero ==
    [last |-> NoPress, prev |-> NoPress, phase |-> "idle", owner |-> 0,
     enterSeen |-> FALSE, up |-> -1, emitted |-> "None", emittedWas |-> "None"]

\* The history after event e was answered with events out.  It reads only the
\* delivered event and the returned events, never the recognizer's fields.
\*   phase: "down"   a Press was answered and its pointer has not left since
\*          "left"   that pointer's Leave arrived, and no Enter of it since
\*          "upIn"   its Release arrived in phase "down" (this very call)
\*          "upLeft" its Release arrived in phase "left" (this very call)
\*   enterSeen: an Enter arrived, from any pointer while no press was in
\*          progress or from the pressing pointer, and no Cancel since
\*   emitted: the kind of the latest event returned, emittedWas the same
\*          before the last call
\*   up:    the time of the Release that ended the latest press before the
\*          one in progress or, with none in progress, the latest press;
\*          -1 when a Cancel came since or there was none
ClickHistNext(h0, e, out) ==
    LET h == [h0 EXCEPT !.emittedWas = h0.emitted,
                        !.emitted = IF out = <<>> THEN h0.emitted
                                    ELSE out[Len(out)].Kind]
        inPress == h.phase \in {"down", "left"}
        mine == inPress /\ e.PointerID = h.owner
        rest == IF inPress THEN h.phase ELSE "idle"
    IN  IF out # <<>> /\ out[1].Kind = "KindPress"
        THEN [h EXCEPT !.phase = "down", !.owner = e.PointerID, !.prev = h.last,
                       !.last = [valid |-> TRUE, t |-> e.Time, n |-> out[1].NumClicks]]
        ELSE CASE e.Kind = "Cancel" ->
                    [h EXCEPT !.phase = "idle", !.enterSeen = FALSE, !.up = -1]
               [] e.Kind = "Enter" ->
                    [h EXCEPT !.phase = IF mine THEN "down" ELSE rest,
                              !.enterSeen = h.enterSeen \/ mine \/ ~inPress]
               [] e.Kind = "Leave" ->
                    [h EXCEPT !.phase = IF mine THEN "left" ELSE rest]
               [] e.Kind = "Release" ->
                    [h EXCEPT !.phase = IF mine
                                        THEN IF h.phase = "left" THEN "upLeft" ELSE "upIn"
                                        ELSE rest,
                              !.up = IF mine THEN e.Time ELSE h.up]
               [] OTHER -> [h EXCEPT !.phase = rest]

ClickInit ==
    /\ click = ClickZero
    /\ clickIn = NoEvent
    /\ clickPre = ClickZero
    /\ clickOut = <<>>
    /\ clickHist = ClickHistZero

\* One frame: Click.Update on a queue holding one event, whose timestamp is
\* not before the previous event's.
ClickUpdateCall ==
    \E dt \in TimeSteps :
        /\ clickIn.Time + dt <= MaxTime
        /\ \E e \in ClickEventsAt(clickIn.Time + dt) :
              LET r == ClickUpdate(click, <<e>>)
              IN  /\ r.c.clicks <= MaxClicks
                  /\ click' = r.c
                  /\ clickOut' = r.events
                  /\ clickIn' = e
                  /\ clickPre' = click
                  /\ clickHist' = ClickHistNext(clickHist, e, r.events)

VARIABLES
    scroll,     \* the Scroll recognizer
    scrollIn,   \* the last call on it: Update (queue, axis, metric) or Stop
    scrollPre,  \* the recognizer before that call
    scrollOut,  \* the distance that call returned (0 for Stop)
    scrollHist, \* what the calls so far showed
    stateObs    \* the answer of a State() call made in this state, if any

scrollVars == <<scroll, scrollIn, scrollPre, scrollOut, scrollHist, stateObs>>

\* The value of dragIn before any call.
NoDragCall ==
    [e |-> DragPtrEvent("None", 0, "Mouse", NoButtons, "Shared", Pt(0, 0)),
     axis |-> "Both", cfg |-> [PxPerDp |-> 1]]

\* A drag gesture as the events show it: in progress from a forwarded Press to
\* the Release or Cancel of its pointer; start is that Press's position;
\* beyond tells whether a Drag event of that pointer below Grabbed priority
\* was forwarded at a squared distance from start above the squared slop of
\* its frame.
DragHistZero == [active |-> FALSE, owner |-> 0, start |-> Pt(0, 0), beyond |-> FALSE]

DragHistNext(h, e, cfg, out) ==
    LET mine == h.active /\ e.PointerID = h.owner
    IN  CASE e.Kind = "Press" /\ out # <<>> ->
                [active |-> TRUE, owner |-> e.PointerID, start |-> e.Position,
                 beyond |-> FALSE]
          [] e.Kind \in {"Release", "Cancel"} /\ mine ->
                [h EXCEPT !.active = FALSE, !.beyond = FALSE]
          [] e.Kind = "Drag" /\ mine /\ BelowGrabbed(e) /\ out # <<>> ->
                LET diff == Sub(out[1].Position, h.start)
                    slop == Dp(cfg, touchSlop)
                IN  [h EXCEPT !.beyond =
                        h.beyond \/ diff.X * diff.X + diff.Y * diff.Y > slop * slop]
          [] OTHER -> h

DragInit ==
    /\ drag = DragZero
    /\ dragIn = NoDragCall
    /\ dragPre = DragZero
    /\ dragOut = <<>>
    /\ dragHist = DragHistZero

\* The calls made: a Drag event under every axis and metric; an event of
\* another kind, which reads neither, under one of each.
DragCalls ==
    { [e |-> e, axis |-> axis, cfg |-> cfg] :
         e \in {x \in DragEvents : x.Kind = "Drag"}, axis \in Axes, cfg \in Metrics }
    \cup { [e |-> e, axis |-> "Horizontal", cfg |-> [PxPerDp |-> 1]] :
             e \in {x \in DragEvents : x.Kind # "Drag"} }

\* One frame: Drag.Update on a queue holding one event.
DragUpdateCall ==
    \E call \in DragCalls :
        LET r == DragUpdate(drag, call.cfg, <<call.e>>, call.axis)
        IN  /\ drag' = r.d
            /\ dragOut' = r.events
            /\ dragIn' = call
            /\ dragPre' = drag
            /\ dragHist' = DragHistNext(dragHist, call.e, call.cfg, r.events)

\* The value of scrollIn before any call.
NoScrollCall == [op |-> "None", q |-> <<>>, axis |-> "Horizontal", cfg |-> [PxPerDp |-> 1]]

\* A touch drag-to-scroll gesture as the calls show it: in progress from a
\* touch Press that arrived while no drag was in progress to the Release of
\* its pointer or a Cancel; prev is the rounded projection of its latest Press
\* or Drag event on the axis of that event's call, lastG that of its Press or
\* of its latest Drag event at Grabbed priority.  Right after a Drag event of
\* its pointer (moved), prevWas and lastGWas are prev and lastG before it.
\* The events of a call that comes with another axis are not looked at.
GestureZero ==
    [active |-> FALSE, owner |-> 0, prev |-> 0, lastG |-> 0, moved |-> FALSE,
     prevWas |-> 0, lastGWas |-> 0]

\* The projection of a position on the axis of a call, in whole pixels.
Projection(pos, axis) == Round(IF axis = "Horizontal" THEN pos.X ELSE pos.Y)

GestureNext(g, pre, call) ==
    IF call.axis # pre.axis \/ call.q = <<>>
    THEN [g EXCEPT !.moved = FALSE, !.prevWas = 0, !.lastGWas = 0]
    ELSE LET e == call.q[1]
             v == Projection(e.Position, call.axis)
             mine == g.active /\ e.PointerID = g.owner
             still == [g EXCEPT !.moved = FALSE, !.prevWas = 0, !.lastGWas = 0]
         IN  CASE e.Kind = "Press" /\ ~pre.dragging /\ e.Source = "Touch" ->
                     [GestureZero EXCEPT !.active = TRUE, !.owner = e.PointerID,
                                         !.prev = v, !.lastG = v]
               [] e.Kind = "Cancel" \/ (e.Kind = "Release" /\ mine) -> GestureZero
               [] e.Kind = "Drag" /\ mine ->
                     [g EXCEPT !.prev = v,
                               !.lastG = IF BelowGrabbed(e) THEN g.lastG ELSE v,
                               !.moved = TRUE,
                               !.prevWas = g.prev, !.lastGWas = g.lastG]
               [] OTHER -> still

\* A history of wheel events only, under one axis: their number, the sum of
\* their deltas on the axis (tenths) and the sum of the distances returned.
\* ok is false once an event of a kind Scroll.Update handles otherwise
\* arrived, the axis changed after a wheel event, or the axis is Both.
WheelZero == [ok |-> TRUE, n |-> 0, in |-> 0, out |-> 0]
WheelOff == [ok |-> FALSE, n |-> 0, in |-> 0, out |-> 0]

WheelNext(w, pre, call, total) ==
    IF ~w.ok
    THEN w
    ELSE IF call.axis # pre.axis
    THEN IF w.n = 0 /\ call.axis # "Both" THEN w ELSE WheelOff
    ELSE IF call.q = <<>> \/ call.q[1].Kind \in ScrollUnhandledKinds
    THEN w
    ELSE IF call.q[1].Kind # "Scroll" \/ call.axis = "Both"
    THEN WheelOff
    ELSE [ok |-> TRUE, n |-> w.n + 1, out |-> w.out + total,
          in |-> w.in + CASE call.axis = "Horizontal" -> call.q[1].Scroll.X
                          [] call.axis = "Vertical"   -> call.q[1].Scroll.Y
                          [] OTHER                    -> 0]

\* A tally of one touch drag gesture, from the Press that Scroll.Update took
\* to the Release of its pointer: the projection of the Press position
\* (press), the projection of the latest Drag event of the owner at Grabbed
\* priority (lastG, the Press position while there is none), the sum of the
\* distances the calls returned (sum), and whether a Drag event arrived at
\* Grabbed priority (some).  phase is "open" during the gesture and "done"
\* right after its Release; it is "none" outside a gesture and for the rest
\* of a gesture during which the axis changed, a wheel event arrived or the
\* fling was active.
TallyZero ==
    [phase |-> "none", press |-> 0, lastG |-> 0, sum |-> 0, some |-> FALSE]

TallyNext(t, pre, call, post, total) ==
    IF call.axis # pre.axis
    THEN TallyZero
    ELSE IF call.q # <<>> /\ call.q[1].Kind = "Press" /\ ~pre.dragging
            /\ call.q[1].Source = "Touch"
    THEN LET v == Projection(call.q[1].Position, call.axis)
         IN  [TallyZero EXCEPT !.phase = "open", !.press = v, !.lastG = v,
                               !.sum = total]
    ELSE IF t.phase # "open" THEN TallyZero
    ELSE IF Active(pre.flinger) \/ Active(post.flinger) THEN TallyZero
    ELSE IF call.q = <<>> THEN [t EXCEPT !.sum = t.sum + total]
    ELSE LET e == call.q[1]
             mine == e.PointerID = pre.pid
         IN  CASE e.Kind = "Scroll" -> TallyZero
               [] e.Kind = "Cancel" -> TallyZero
               [] e.Kind = "Release" /\ mine ->
                     [t EXCEPT !.phase = "done", !.sum = t.sum + total]
               [] e.Kind = "Drag" /\ mine /\ ~BelowGrabbed(e) ->
                     [t EXCEPT !.lastG = Projection(e.Position, call.axis),
                               !.sum = t.sum + total,
                               !.some = TRUE]
               [] OTHER -> [t EXCEPT !.sum = t.sum + total]

ScrollHistZero == [g |-> GestureZero, w |-> WheelZero, t |-> TallyZero]

NoState == [r |-> "None", flinging |-> FALSE, dragging |-> FALSE]

ScrollInit ==
    /\ scroll = ScrollZero
    /\ scrollIn = NoScrollCall
    /\ scrollPre = ScrollZero
    /\ scrollOut = 0
    /\ scrollHist = ScrollHistZero
    /\ stateObs = NoState

\* One frame: Scroll.Update on a queue of at most one event.
ScrollUpdateCall(calls) ==
    \E call \in calls :
        LET r == ScrollUpdate(scroll, call.cfg, call.q, call.axis)
            w == WheelNext(scrollHist.w, scroll, call, r.total)
        IN  /\ w.in <= MaxWheelSum /\ -w.in <= MaxWheelSum
            /\ w.n <= MaxWheelEvents
            /\ scroll' = r.s
            /\ scrollOut' = r.total
            /\ scrollIn' = call
            /\ scrollPre' = scroll
            /\ scrollHist' = [g |-> GestureNext(scrollHist.g, scroll, call), w |-> w,
                              t |-> TallyNext(scrollHist.t, scroll, call, r.s, r.total)]
            /\ stateObs' = NoState

\* Scroll.Stop()
ScrollStopCall ==
    /\ scroll' = ScrollStop(scroll)
    /\ scrollOut' = 0
    /\ scrollIn' = [NoScrollCall EXCEPT !.op = "Stop", !.axis = scroll.axis]
    /\ scrollPre' = scroll
    /\ scrollHist' = [scrollHist EXCEPT !.g.moved = FALSE, !.g.prevWas = 0,
                                        !.g.lastGWas = 0]
    /\ stateObs' = NoState

\* Scroll.State()
ScrollStateCall ==
    /\ stateObs' = [r |-> ScrollState(scroll), flinging |-> Active(scroll.flinger),
                    dragging |-> scroll.dragging]
    /\ UNCHANGED <<scroll, scrollIn, scrollPre, scrollOut, scrollHist>>

VARIABLES
    axisStr,    \* the last Axis.String call: its receiver and its outcome
    kindStr,    \* the last ClickKind.String call
    stateStr    \* the last ScrollState.String call

strVars == <<axisStr, kindStr, stateStr>>

NoStringCall == [v |-> -1, out |-> Returned("")]

StringInit ==
    /\ axisStr = NoStringCall
    /\ kindStr = NoStringCall
    /\ stateStr = NoStringCall

AxisStringCall ==
    /\ \E a \in EnumValues : axisStr' = [v |-> a, out |-> AxisString(a)]
    /\ UNCHANGED <<kindStr, stateStr>>

ClickKindStringCall ==
    /\ \E ct \in EnumValues : kindStr' = [v |-> ct, out |-> ClickKindString(ct)]
    /\ UNCHANGED <<axisStr, stateStr>>

ScrollStateStringCall ==
    /\ \E s \in EnumValues : stateStr' = [v |-> s, out |-> ScrollStateString(s)]
    /\ UNCHANGED <<axisStr, kindStr>>

VARIABLES
    enum,       \* the Enum widget
    enumSel,    \* the keys that got a selecting event in the last Enum.Update call
    enumPre,    \* Value before that call
    enumOut     \* what that call returned

enumVars == <<enum, enumSel, enumPre, enumOut>>

\* The keys that frame gtx brings a selecting event for: a completed click
\* of the key's recognizer, or the release of Return or Space on its tag.
Selected(e, gtx) ==
    { EnumKeys[i] : i \in
        { j \in 1..Len(EnumKeys) :
            \/ \E n \in 1..Len(ClickUpdate(e.keys[j], gtx.pointer[j]).events) :
                  ClickUpdate(e.keys[j], gtx.pointer[j]).events[n].Kind = "KindClick"
            \/ \E n \in 1..Len(gtx.key[j]) :
                  /\ gtx.key[j][n].Type = "Event"
                  /\ gtx.key[j][n].State = "Release"
                  /\ gtx.key[j][n].Name \in {"NameReturn", "NameSpace"} } }

EnumInit ==
    /\ enum = EnumZero
    /\ enumSel = {}
    /\ enumPre = ""
    /\ enumOut = FALSE

\* One frame: Enum.Update.
EnumUpdateCall ==
    \E gtx \in EnumFrames :
        LET r == EnumUpdate(enum, gtx)
        IN  /\ \A i \in 1..Len(EnumKeys) : r.e.keys[i].clicks <= MaxClicks
            /\ enum' = r.e
            /\ enumOut' = r.changed
            /\ enumSel' = Selected(enum, gtx)
            /\ enumPre' = enum.Value

VARIABLES
    hover,      \* the Hover recognizer
    hoverIn,    \* the queue of the last Hover.Update call
    hoverPre,   \* the recognizer before that call
    hoverOut,   \* what that call returned
    hoverHist   \* what the delivered events showed so far

hoverVars == <<hover, hoverIn, hoverPre, hoverOut, hoverHist>>

\* The pointer that is inside, as the delivered events show it: one that
\* entered while none was inside and has not left or been cancelled since.
InsideZero == [inside |-> FALSE, owner |-> 0]

InsideAfter(i, e) ==
    CASE e.Kind = "Enter" /\ ~i.inside -> [inside |-> TRUE, owner |-> e.PointerID]
      [] e.Kind \in {"Leave", "Cancel"} /\ i.inside /\ e.PointerID = i.owner ->
            [i EXCEPT !.inside = FALSE]
      [] OTHER -> i

RECURSIVE InsideNext(_, _)
InsideNext(i, q) ==
    IF q = <<>> THEN i ELSE InsideNext(InsideAfter(i, Head(q)), Tail(q))

HoverInit ==
    /\ hover = HoverZero
    /\ hoverIn = <<>>
    /\ hoverPre = HoverZero
    /\ hoverOut = FALSE
    /\ hoverHist = InsideZero

\* One frame: Hover.Update.
HoverUpdateCall ==
    \E q \in HoverQueues :
        LET r == HoverUpdate(hover, q)
        IN  /\ hover' = r.h
            /\ hoverOut' = r.r
            /\ hoverIn' = q
            /\ hoverPre' = hover
            /\ hoverHist' = InsideNext(hoverHist, q)

VARIABLES
    dnd,        \* the Draggable
    dndPre,     \* Pos() before the last Draggable.Update call
    dndFw,      \* the events d.drag.Update returned in that call
    dndOut,     \* what that call returned
    dndHist     \* the position of the latest Press that d.drag.Update returned

dndVars == <<dnd, dndPre, dndFw, dndOut, dndHist>>

\* The position of the latest Press among events evs, or p if there is none.
RECURSIVE LatestPress(_, _)
LatestPress(p, evs) ==
    IF evs = <<>> THEN p
    ELSE LatestPress(IF Head(evs).Kind = "Press" THEN Head(evs).Position ELSE p,
                     Tail(evs))

DraggableInit ==
    /\ dnd = DraggableZero
    /\ dndPre = Pt(0, 0)
    /\ dndFw = <<>>
    /\ dndOut = [mime |-> "", requested |-> FALSE]
    /\ dndHist = Pt(0, 0)

\* One frame: Draggable.Update.
DraggableUpdateCall ==
    \E gtx \in DraggableFrames :
        LET r == DraggableUpdate(dnd, gtx)
        IN  /\ dnd' = r.d
            /\ dndPre' = DraggablePos(dnd)
            /\ dndFw' = r.forwarded
            /\ dndOut' = r.out
            /\ dndHist' = LatestPress(dndHist, r.forwarded)

vars == <<clickVars, dragVars, scrollVars, strVars, enumVars, hoverVars, dndVars>>

Init ==
    /\ ClickInit /\ DragInit /\ ScrollInit /\ StringInit /\ EnumInit /\ HoverInit
    /\ DraggableInit

DraggableNext ==
    DraggableUpdateCall
    /\ UNCHANGED <<clickVars, dragVars, scrollVars, strVars, enumVars, hoverVars>>

SpecDraggable == Init /\ [][DraggableNext]_vars

HoverNext ==
    HoverUpdateCall /\ UNCHANGED <<clickVars, dragVars, scrollVars, strVars, enumVars, dndVars>>

SpecHover == Init /\ [][HoverNext]_vars

EnumNext == EnumUpdateCall /\ UNCHANGED <<clickVars, dragVars, scrollVars, strVars, hoverVars, dndVars>>

SpecEnum == Init /\ [][EnumNext]_vars

ClickNext == ClickUpdateCall /\ UNCHANGED <<dragVars, scrollVars, strVars, enumVars, hoverVars, dndVars>>

DragNext == DragUpdateCall /\ UNCHANGED <<clickVars, scrollVars, strVars, enumVars, hoverVars, dndVars>>

StringNext ==
    /\ AxisStringCall \/ ClickKindStringCall \/ ScrollStateStringCall
    /\ UNCHANGED <<clickVars, dragVars, scrollVars, enumVars, hoverVars, dndVars>>

SpecString == Init /\ [][StringNext]_vars

\* Touch, wheel and empty frames, and Stop().
ScrollNext ==
    /\ \/ ScrollUpdateCall(TouchCalls(scroll.axis))
       \/ ScrollUpdateCall(AxisChangeCalls(scroll.axis))
       \/ ScrollStopCall
    /\ UNCHANGED <<clickVars, dragVars, strVars, enumVars, hoverVars, dndVars>>

\* The same with State() queried in between.
ScrollStateNext == ScrollNext \/ (ScrollStateCall /\ UNCHANGED <<clickVars, dragVars, strVars, enumVars, hoverVars, dndVars>>)

\* Wheel frames only.
WheelNextStep == ScrollUpdateCall(WheelCalls) /\ UNCHANGED <<clickVars, dragVars, strVars, enumVars, hoverVars, dndVars>>

SpecClick == Init /\ [][ClickNext]_vars

SpecDrag == Init /\ [][DragNext]_vars

\* The Drag recognizer and the Scroll recognizer, which share no state, one
\* at a time: every behaviour of either, none that mixes them.
GrabNext ==
    \/ DragNext /\ scrollIn.op = "None"
    \/ ScrollNext /\ dragIn = NoDragCall

SpecGrab == Init /\ [][GrabNext]_vars

SpecScroll == Init /\ [][ScrollNext]_vars

SpecScrollState == Init /\ [][ScrollStateNext]_vars

SpecWheel == Init /\ [][WheelNextStep]_vars

\* A frame without events.  Scroll.Add adds an InvalidateOp while the fling
\* animation is active, so the host keeps delivering frames.
EmptyFrame ==
    ScrollUpdateCall(EmptyCalls(scroll.axis)) /\ UNCHANGED <<clickVars, dragVars, strVars, enumVars, hoverVars, dndVars>>

SpecFling == Init /\ [][ScrollNext]_vars /\ WF_vars(EmptyFrame)

Next ==
    ClickNext \/ DragNext \/ ScrollNext \/ StringNext \/ EnumNext \/ HoverNext
    \/ DraggableNext

Spec == Init /\ [][Next]_vars

\* ------------------------------------------------------------ Click claims
\* Whether the last Click.Update call returned an event of this kind.
ClickReturned(kind) == \E i \in 1..Len(clickOut) : clickOut[i].Kind = kind

\* C1: a Press answered less than 200 ms after the previous answered Press
\* carries that Press's count plus one, one answered 200 ms or more after it
\* carries count 1, and a Click carries the count of the Press before it.
C1_MultiClickCount ==
    /\ (ClickReturned("KindPress") /\ clickHist.prev.valid) =>
          clickOut[1].NumClicks =
             IF clickIn.Time - clickHist.prev.t < doubleClickDuration
             THEN clickHist.prev.n + 1
             ELSE 1
    /\ (ClickReturned("KindPress") /\ ~clickHist.prev.valid) =>
          clickOut[1].NumClicks = 1
    /\ \A i \in 1..Len(clickOut) :
          clickOut[i].Kind = "KindClick" => clickOut[i].NumClicks = clickHist.last.n

\* A second click completed inside the double-click window.
C1_Witness ==
    /\ ClickReturned("KindClick")
    /\ clickOut[1].NumClicks = 2
    /\ clickHist.prev.valid
    /\ clickHist.last.t - clickHist.prev.t < doubleClickDuration

\* C2 as stated: the Release of a pressing pointer that left and did not
\* re-enter is answered with Cancel, whatever happened before.
C2_LeaveThenReleaseCancels ==
    clickHist.phase = "upLeft" => clickOut = <<CancelEvent>>

\* C2 amended: that Release is answered with Cancel when an Enter was received
\* since the last Cancel (from any pointer while nothing was pressed, or from
\* the pressing pointer), and with a Click carrying the press's count when no
\* such Enter was received.
C2_LeaveThenReleaseByEnter ==
    clickHist.phase = "upLeft" =>
        IF clickHist.enterSeen
        THEN clickOut = <<CancelEvent>>
        ELSE clickOut = <<ClickEvent("KindClick", clickIn.Source, clickHist.last.n)>>

\* Enter, Press, Leave, Release of one pointer: the Release is cancelled.
C2_Witness ==
    /\ clickHist.phase = "upLeft"
    /\ clickHist.enterSeen
    /\ clickOut = <<CancelEvent>>

\* C9: a Cancel event from any pointer leaves pressed, hovered and entered
\* false, and is answered with one Cancel event if the recognizer was pressed
\* and with nothing otherwise.
C9_CancelIsAbsolute ==
    clickIn.Kind = "Cancel" =>
        /\ ~ClickPressed(click) /\ ~ClickHovered(click) /\ ~click.entered
        /\ clickOut = IF ClickPressed(clickPre) THEN <<CancelEvent>> ELSE <<>>

\* A Cancel of another pointer than the pressing one, while pressed and hovered.
C9_Witness ==
    /\ clickIn.Kind = "Cancel"
    /\ clickPre.pressed /\ clickPre.hovered /\ clickPre.entered
    /\ clickIn.PointerID # clickPre.pid
    /\ clickOut = <<CancelEvent>>

\* C15: the double-click window runs from the previous answered Press,
\* whenever its Release came: after Press, Release, Press the second Press
\* carries the first one's count plus one exactly when it comes less than
\* 200 ms after the first Press, and count 1 otherwise, also when it comes
\* less than 200 ms after the Release.
C15_WindowBetweenPresses ==
    (ClickReturned("KindPress") /\ clickHist.prev.valid /\ clickHist.up # -1) =>
        /\ clickHist.prev.t <= clickHist.up /\ clickHist.up <= clickIn.Time
        /\ (clickOut[1].NumClicks = clickHist.prev.n + 1)
              <=> (clickIn.Time - clickHist.prev.t < doubleClickDuration)
        /\ clickIn.Time - clickHist.prev.t >= doubleClickDuration =>
              clickOut[1].NumClicks = 1

\* A Press 100 ms after the Release and 200 ms or more after the Press
\* before it: the count is back at 1.
C15_Witness ==
    /\ ClickReturned("KindPress") /\ clickHist.prev.valid /\ clickHist.up # -1
    /\ clickIn.Time - clickHist.up < doubleClickDuration
    /\ clickIn.Time - clickHist.up > 0
    /\ clickIn.Time - clickHist.prev.t >= doubleClickDuration
    /\ clickOut[1].NumClicks = 1

\* The last event was a Press delivered to a recognizer that was not pressed
\* and whose pointer was free or the event's.
PressOnIdle ==
    /\ clickIn.Kind = "Press" /\ ~ClickPressed(clickPre)
    /\ ~ClickHovered(clickPre) \/ clickPre.pid = clickIn.PointerID

\* The last event started a click: pressed is set and one Press event is out.
ClickStarted ==
    /\ ClickPressed(click) /\ click.pid = clickIn.PointerID
    /\ clickOut = <<ClickEvent("KindPress", clickIn.Source, click.clicks)>>

\* C16 as stated: a Press on an idle recognizer starts a click when it comes
\* from a touch source, whatever its buttons, or from a mouse with the
\* primary button held; a mouse Press without the primary button changes
\* nothing and emits nothing.
C16_PrimaryHeldStartsClick ==
    PressOnIdle =>
        IF clickIn.Source = "Touch" \/ "Primary" \in clickIn.Buttons
        THEN ClickStarted
        ELSE click = clickPre /\ clickOut = <<>>

\* What Click.Update does (C16): a mouse Press starts a click only when the
\* primary button is the one button held; with another button held as well
\* it changes nothing and emits nothing.
C16_PrimaryAloneStartsClick ==
    PressOnIdle =>
        IF clickIn.Source = "Touch" \/ clickIn.Buttons = ButtonPrimary
        THEN ClickStarted
        ELSE click = clickPre /\ clickOut = <<>>

\* A mouse Press with the primary and the secondary button held, ignored.
C16_Witness ==
    /\ PressOnIdle /\ clickIn.Source = "Mouse"
    /\ clickIn.Buttons = {"Primary", "Secondary"}
    /\ click = clickPre /\ clickOut = <<>>

\* C17: while the recognizer is pressed by pointer p, an Enter, Leave, Press
\* or Release event of another pointer changes nothing in it and is answered
\* with nothing.
C17_PressCommitsOwner ==
    ( /\ ClickPressed(clickPre)
      /\ clickIn.Kind \in {"Enter", "Leave", "Press", "Release"}
      /\ clickIn.PointerID # clickHist.owner ) =>
        /\ click = clickPre /\ clickOut = <<>>
        /\ clickPre.pid = clickHist.owner

\* The Leave of another pointer while pressed and hovered.
C17_Witness ==
    /\ ClickPressed(clickPre) /\ ClickHovered(clickPre) /\ clickPre.entered
    /\ clickIn.Kind = "Leave" /\ clickIn.PointerID # clickHist.owner
    /\ click = clickPre /\ ClickHovered(click) /\ clickOut = <<>>

\* C24: the events Click returns alternate: a Press event is returned only
\* when the latest event returned before was not a Press, a Click or Cancel
\* event only when it was a Press, one event at most per delivered event, and
\* Pressed() is true exactly when the latest event returned is a Press.
C24_EventsAlternate ==
    /\ Len(clickOut) <= 1
    /\ ClickReturned("KindPress") => clickHist.emittedWas # "KindPress"
    /\ (ClickReturned("KindClick") \/ ClickReturned("KindCancel")) =>
          clickHist.emittedWas = "KindPress"
    /\ ClickPressed(click) <=> clickHist.emitted = "KindPress"

\* A Cancel event returned for a press, after an earlier click was completed.
C24_Witness ==
    /\ ClickReturned("KindCancel") /\ clickHist.emittedWas = "KindPress"
    /\ clickHist.prev.valid /\ ~ClickPressed(click) /\ ClickPressed(clickPre)

\* ------------------------------------------------------------- Drag claims
\* The squared distance of a position from the gesture's start.
DistSq(pos, start) ==
    (pos.X - start.X) * (pos.X - start.X) + (pos.Y - start.Y) * (pos.Y - start.Y)

C4_AxisPinned ==
    \A i \in 1..Len(dragOut) :
        dragOut[i].Kind = "Drag" =>
            dragOut[i].Position =
                CASE dragIn.axis = "Horizontal" ->
                        Pt(dragIn.e.Position.X, dragHist.start.Y)
                  [] dragIn.axis = "Vertical" ->
                        Pt(dragHist.start.X, dragIn.e.Position.Y)
                  [] OTHER -> dragIn.e.Position

\* A Drag event forwarded under Horizontal whose input Y was not the start's.
C4_Witness ==
    /\ dragOut # <<>> /\ dragOut[1].Kind = "Drag"
    /\ dragIn.axis = "Horizontal"
    /\ dragIn.e.Position.Y # dragHist.start.Y
    /\ dragOut[1].Position.Y = dragHist.start.Y

\* The last call delivered a Press, Drag, Release or Cancel of another
\* pointer than the one whose drag was in progress.
ForeignDuringDrag ==
    /\ DragDragging(dragPre)
    /\ dragIn.e.Kind \in {"Press", "Drag", "Release", "Cancel"}
    /\ dragIn.e.PointerID # dragPre.pid

\* C7 as stated: such an event leaves the whole Drag state unchanged and adds
\* nothing to the output.
C7_ForeignPointerIgnored ==
    ForeignDuringDrag => (drag = dragPre /\ dragOut = <<>>)

\* C7 amended: such an event leaves dragging, owner, start position and grab
\* flag unchanged and adds nothing to the output; pressed is not owned by a
\* pointer: a Press with the primary button or from touch sets it, a Release
\* or Cancel clears it, whatever the pointer.
C7_ForeignPointerKeepsDrag ==
    ForeignDuringDrag =>
        /\ dragOut = <<>>
        /\ drag.dragging = dragPre.dragging /\ drag.pid = dragPre.pid
        /\ drag.start = dragPre.start /\ drag.grab = dragPre.grab
        /\ drag.pressed =
              CASE dragIn.e.Kind \in {"Release", "Cancel"} -> FALSE
                [] dragIn.e.Kind = "Press"
                   /\ (dragIn.e.Buttons = ButtonPrimary \/ dragIn.e.Source = "Touch")
                     -> TRUE
                [] OTHER -> dragPre.pressed

\* Another pointer's Release during a drag with the grab requested.
C7_Witness ==
    /\ ForeignDuringDrag
    /\ dragIn.e.Kind = "Release"
    /\ dragPre.pressed /\ dragPre.grab
    /\ drag.dragging /\ drag.grab /\ ~drag.pressed

\* C8: an event of a kind Drag.Update has no case for (Move, Enter, Leave,
\* Scroll) changes no state and does not appear in the returned events.
C8_UnhandledKindsIgnored ==
    dragIn.e.Kind \in DragUnhandledKinds => (drag = dragPre /\ dragOut = <<>>)

\* C25: Pressed() implies Dragging() in every reachable state of Drag.
C25_PressedImpliesDragging == DragPressed(drag) => DragDragging(drag)

\* Another pointer's Press during a drag, after a Release of a foreign
\* pointer had cleared pressed: pressed again, the drag still the owner's.
C25_Witness ==
    /\ dragIn.e.Kind = "Press" /\ dragIn.e.PointerID # dragPre.pid
    /\ ~DragPressed(dragPre) /\ DragDragging(dragPre)
    /\ DragPressed(drag) /\ DragDragging(drag) /\ drag.pid = dragPre.pid

\* C26: in Drag and in Scroll the grab request is set only while dragging is
\* set; the Release or Cancel that ends a drag leaves it false.
C26_GrabOnlyWhileDragging ==
    /\ drag.grab => DragDragging(drag)
    /\ scroll.grab => scroll.dragging
    /\ (dragIn.e.Kind \in {"Release", "Cancel"} /\ DragDragging(dragPre)
          /\ ~DragDragging(drag)) => ~drag.grab
    /\ (scrollIn.op = "Update" /\ scrollPre.dragging /\ ~scroll.dragging) =>
          ~scroll.grab

\* The Release that ends a drag-to-scroll whose grab was requested.
C26_Witness ==
    /\ scrollIn.op = "Update" /\ scrollIn.q # <<>> /\ scrollIn.q[1].Kind = "Release"
    /\ scrollPre.dragging /\ scrollPre.grab
    /\ ~scroll.dragging /\ ~scroll.grab

\* The same for Drag: a Cancel of the owner ends a drag that had the grab.
DragCancelDropsGrab ==
    /\ dragIn.e.Kind = "Cancel" /\ DragDragging(dragPre) /\ dragPre.grab
    /\ ~DragDragging(drag) /\ ~drag.grab

\* ----------------------------------------------------------- Scroll claims
\* The last call was Scroll.Update handling a wheel event under axis
\* Horizontal or Vertical.
WheelHandled ==
    /\ scrollIn.op = "Update" /\ scrollIn.q # <<>>
    /\ scrollIn.q[1].Kind = "Scroll"
    /\ scrollIn.axis = scrollPre.axis /\ scrollIn.axis # "Both"

\* The delta of that wheel event on the axis (tenths).
WheelDelta ==
    IF scrollIn.axis = "Horizontal" THEN scrollIn.q[1].Scroll.X ELSE scrollIn.q[1].Scroll.Y

\* C5: with wheel events only under one axis, each event contributes the
\* integer part, toward zero, of leftover plus delta and leaves the rest; the
\* contributions plus the leftover sum to the deltas, the leftover is below
\* one pixel in magnitude; 0.3 three times gives 0 each, a fourth gives 1 and
\* leaves 0.2.
C5_WheelAccumulator ==
    scrollHist.w.ok =>
        /\ 10 * scrollHist.w.out + scroll.scroll = scrollHist.w.in
        /\ scroll.scroll < 10 /\ scroll.scroll > -10
        /\ WheelHandled =>
              LET sum == scrollPre.scroll + WheelDelta
              IN  /\ scroll.scroll = sum - 10 * scrollOut
                  /\ sum >= 0 => (10 * scrollOut <= sum /\ sum < 10 * scrollOut + 10)
                  /\ sum < 0 => (10 * scrollOut >= sum /\ sum > 10 * scrollOut - 10)
        /\ (scrollHist.w.n <= 3 /\ scrollHist.w.in = 3 * scrollHist.w.n) =>
              scrollHist.w.out = 0
        /\ (scrollHist.w.n = 4 /\ scrollHist.w.in = 12) =>
              (scrollHist.w.out = 1 /\ scroll.scroll = 2 /\ (WheelHandled => scrollOut = 1))

\* The fourth wheel event of 0.3 has just returned 1 and left 0.2.
C5_Witness ==
    /\ scrollHist.w.ok /\ WheelHandled
    /\ scrollHist.w.n = 4 /\ scrollHist.w.in = 12
    /\ scrollPre.scroll = 9 /\ scrollOut = 1 /\ scroll.scroll = 2

\* C6 as stated: a Drag event of the gesture below Grabbed priority adds
\* nothing to the returned value, and one at Grabbed priority adds only the
\* distance from the gesture's previous event, so that what was covered below
\* Grabbed priority is never returned.
C6_SlopConsumed ==
    scrollHist.g.moved =>
        scrollOut = IF BelowGrabbed(scrollIn.q[1])
                    THEN 0
                    ELSE scrollHist.g.prevWas - scrollHist.g.prev

\* What Scroll.Update does instead (C6): a Drag event of the gesture below
\* Grabbed priority adds nothing to the returned value; one at Grabbed
\* priority adds the distance from the position recorded at the Press or at
\* the latest Drag event at Grabbed priority, so the first of them returns
\* what was covered below Grabbed priority as well.
C6_SlopDeferred ==
    scrollHist.g.moved =>
        scrollOut = IF BelowGrabbed(scrollIn.q[1])
                    THEN 0
                    ELSE scrollHist.g.lastGWas - scrollHist.g.prev

\* A Drag event at Grabbed priority after motion below Grabbed priority.
C6_Witness ==
    /\ scrollHist.g.moved /\ ~BelowGrabbed(scrollIn.q[1])
    /\ scrollHist.g.lastGWas # scrollHist.g.prevWas
    /\ scrollPre.grab
    /\ scrollOut = scrollHist.g.lastGWas - scrollHist.g.prev
    /\ scrollOut # scrollHist.g.prevWas - scrollHist.g.prev

\* C10: State() answers Flinging when the fling animation is active, else
\* Dragging when a drag is in progress, else Idle.
C10_StateReport ==
    stateObs.r # "None" =>
        stateObs.r = IF stateObs.flinging THEN "StateFlinging"
                     ELSE IF stateObs.dragging THEN "StateDragging"
                     ELSE "StateIdle"

\* State() asked while a fling is running.
C10_Witness ==
    /\ stateObs.r = "StateFlinging" /\ stateObs.flinging
    /\ Active(scroll.flinger) /\ ~scroll.dragging

\* The last call was Scroll.Update with another axis than the recognizer had.
AxisChanged == scrollIn.op = "Update" /\ scrollIn.axis # scrollPre.axis

\* C11: a Scroll.Update call with another axis than the previous one returns
\* 0 and changes nothing but the recorded axis: no event of the frame is
\* handled and the fling animation does not advance.
C11_AxisChangeDiscardsFrame ==
    AxisChanged =>
        /\ scrollOut = 0
        /\ scroll = [scrollPre EXCEPT !.axis = scrollIn.axis]

\* An axis change whose frame holds a touch Press while a fling is running:
\* the Press would have stopped the fling, the tick would have advanced it.
C11_Witness ==
    /\ AxisChanged /\ scrollIn.q # <<>> /\ scrollIn.q[1].Kind = "Press"
    /\ Active(scrollPre.flinger) /\ scroll.flinger = scrollPre.flinger
    /\ ~scroll.dragging /\ scrollOut = 0 /\ scroll.axis = scrollIn.axis

\* ----------------------------------------------------------- String claims
\* C12: Axis.String, ClickKind.String and ScrollState.String panic only for
\* values that are none of the defined constants; for Horizontal, Vertical
\* and Both, and for the three kinds and the three states, a name is
\* returned.
C12_StringPanicsOnlyUndefined ==
    /\ axisStr.out.panic => axisStr.v \notin {Horizontal, Vertical, Both}
    /\ kindStr.out.panic => kindStr.v \notin {KindPress, KindClick, KindCancel}
    /\ stateStr.out.panic => stateStr.v \notin {StateIdle, StateDragging, StateFlinging}

\* What holds of the three methods (C12): ClickKind.String and
\* ScrollState.String panic exactly for undefined values, Axis.String
\* panics for every value but Horizontal and Vertical, Both included.
C12_AxisStringPanicsForBoth ==
    /\ axisStr.v # -1 => (axisStr.out.panic <=> axisStr.v \notin {Horizontal, Vertical})
    /\ kindStr.v # -1 =>
          (kindStr.out.panic <=> kindStr.v \notin {KindPress, KindClick, KindCancel})
    /\ stateStr.v # -1 =>
          (stateStr.out.panic <=> stateStr.v \notin {StateIdle, StateDragging, StateFlinging})

\* Both.String() has panicked.
C12_Witness == axisStr.v = Both /\ axisStr.out = Panicked("invalid Axis")

\* ------------------------------------------------------------- Enum claims
\* C13 as stated: Enum.Update returns true if and only if Value after the
\* call differs from Value before it.
C13_ChangedIffValueDiffers == enumOut <=> enum.Value # enumPre

\* What Enum.Update does (C13): it returns true whenever Value after the
\* call differs from Value before it, and when it returns true the frame
\* brought a selecting event for a key other than the old Value and Value is
\* a key that got a selecting event; Value itself may be back at the old one.
C13_ChangedWhenValueDiffers ==
    /\ enum.Value # enumPre => enumOut
    /\ enumOut => /\ \E k \in enumSel : k # enumPre
                  /\ enum.Value \in enumSel

\* A frame that selects another key and then the old one again: Update
\* returns true and Value is what it was.
C13_Witness ==
    /\ enumOut /\ enum.Value = enumPre
    /\ enumSel = {"a", "b"} /\ enum.Value = "b"

\* The last call was Scroll.Update handling an event of this kind.
ScrollHandled(kind) ==
    /\ scrollIn.op = "Update" /\ scrollIn.axis = scrollPre.axis
    /\ scrollIn.q # <<>> /\ scrollIn.q[1].Kind = kind

\* C18: on a Release of the owning pointer the fling starts, with the
\* estimator's velocity, exactly when the estimator's distance is beyond the
\* slop in either direction (strictly); either way dragging and the grab
\* request are false afterwards.  The call's own tick has already advanced
\* the fling and is what the call returns.
C18_ReleaseStartsFling ==
    (ScrollHandled("Release") /\ scrollIn.q[1].PointerID = scrollPre.pid) =>
        LET fling == Estimate(scrollPre.estimator)
            slop == 2 * Dp(scrollIn.cfg, touchSlop)
            beyond == fling.Distance > slop \/ fling.Distance < -slop
            f == IF beyond
                 THEN Start(scrollPre.flinger, scrollIn.cfg, fling.Velocity)
                 ELSE scrollPre.flinger
        IN  /\ scroll.flinger = Tick(f).f
            /\ scrollOut = Tick(f).delta
            /\ beyond => scrollOut # 0
            /\ (~beyond /\ ~Active(scrollPre.flinger)) =>
                  (scrollOut = 0 /\ ~Active(scroll.flinger))
            /\ ~scroll.dragging /\ ~scroll.grab

\* The Release of a drag that went beyond the slop and was grabbed: the
\* fling is running.
C18_Witness ==
    /\ ScrollHandled("Release") /\ scrollIn.q[1].PointerID = scrollPre.pid
    /\ scrollPre.dragging /\ scrollPre.grab
    /\ Estimate(scrollPre.estimator).Distance > 2 * Dp(scrollIn.cfg, touchSlop)
    /\ Active(scroll.flinger) /\ scrollOut # 0
    /\ ~scroll.dragging /\ ~scroll.grab

\* C19: a Cancel event from any pointer leaves dragging and the grab request
\* false and touches neither the fling nor the wheel remainder: the fling
\* goes on as in a frame without events, and nothing else changes.
C19_ScrollCancelIsAbsolute ==
    ScrollHandled("Cancel") =>
        /\ ~scroll.dragging /\ ~scroll.grab
        /\ scroll.scroll = scrollPre.scroll
        /\ scroll.flinger = Tick(scrollPre.flinger).f
        /\ scrollOut = Tick(scrollPre.flinger).delta
        /\ scroll = [scrollPre EXCEPT !.dragging = FALSE, !.grab = FALSE,
                                      !.flinger = scroll.flinger]

\* The Cancel of another pointer than the dragging one, while grabbed and
\* with a wheel remainder.
C19_Witness ==
    /\ ScrollHandled("Cancel")
    /\ scrollPre.dragging /\ scrollPre.grab
    /\ scrollIn.q[1].PointerID # scrollPre.pid
    /\ scrollPre.scroll # 0 /\ scroll.scroll = scrollPre.scroll
    /\ ~scroll.dragging /\ ~scroll.grab

\* The Cancel that arrives while a fling is running: the fling goes on.
CancelDuringFling ==
    /\ ScrollHandled("Cancel") /\ Active(scrollPre.flinger)
    /\ scrollOut = Tick(scrollPre.flinger).delta /\ scrollOut # 0

\* C20: a Press that arrives while a drag is in progress, or from another
\* source than touch (the build is not for Android), changes nothing: owner,
\* last position, dragging and the rest stay, and the fling goes on as in a
\* frame without events.  A touch Press that arrives while no drag is in
\* progress stops the fling, records the rounded projection of its position
\* as the last position, sets dragging and makes its pointer the owner.
C20_ScrollPress ==
    ScrollHandled("Press") =>
        IF scrollPre.dragging \/ scrollIn.q[1].Source # "Touch"
        THEN /\ scroll = [scrollPre EXCEPT !.flinger = Tick(scrollPre.flinger).f]
             /\ scrollOut = Tick(scrollPre.flinger).delta
        ELSE /\ ~Active(scroll.flinger) /\ scrollOut = 0
             /\ scroll.last = Projection(scrollIn.q[1].Position, scrollIn.axis)
             /\ scroll.dragging
             /\ scroll.pid = scrollIn.q[1].PointerID
             /\ scroll.grab = scrollPre.grab /\ scroll.scroll = scrollPre.scroll

\* A touch Press of a new pointer at 2.5 px while a fling is running: the
\* fling is stopped and the last position is 3.
C20_Witness ==
    /\ ScrollHandled("Press") /\ scrollIn.q[1].Source = "Touch"
    /\ ~scrollPre.dragging /\ Active(scrollPre.flinger)
    /\ scrollIn.q[1].PointerID # scrollPre.pid
    /\ scrollIn.q[1].Position = Pt(5, 0) /\ scrollIn.axis = "Horizontal"
    /\ scroll.dragging /\ scroll.last = 3 /\ scroll.pid = scrollIn.q[1].PointerID
    /\ ~Active(scroll.flinger) /\ scrollOut = 0

\* A Press that is not taken: of another pointer during a drag, or of a mouse.
PressNotTaken ==
    /\ ScrollHandled("Press") /\ scrollPre.dragging
    /\ scrollIn.q[1].PointerID # scrollPre.pid /\ scroll = scrollPre

\* After Stop() the fling is inactive, State() is not Flinging and every
\* other field is what it was.
StopEffect ==
    scrollIn.op = "Stop" =>
        /\ scroll = [scrollPre EXCEPT !.flinger = AnimationZero]
        /\ ~Active(scroll.flinger)
        /\ ScrollState(scroll) # "StateFlinging"

\* An inactive fling becomes active only in an Update call that handles a
\* Release, and the Update call on a frame without a Release that follows
\* Stop() returns no fling contribution: nothing on a frame without events.
AfterStop ==
    /\ (~Active(scroll.flinger) /\ Active(scroll.flinger')) =>
          (scrollIn'.op = "Update" /\ scrollIn'.q # <<>>
             /\ scrollIn'.q[1].Kind = "Release")
    /\ (scrollIn.op = "Stop" /\ scrollIn'.op = "Update" /\ scrollIn'.q = <<>>) =>
          scrollOut' = 0

\* C21: Stop() clears the fling and nothing else: dragging, owner, grab
\* request, last position and wheel remainder are as before, State() is not
\* Flinging until an Update call handles a Release, and the next Update adds
\* no fling contribution.
C21_StopClearsFlingOnly == []StopEffect /\ [][AfterStop]_vars

\* Stop() called while a fling was running and a wheel remainder was kept.
C21_Witness ==
    /\ scrollIn.op = "Stop" /\ Active(scrollPre.flinger)
    /\ ~Active(scroll.flinger) /\ ScrollState(scroll) = "StateIdle"
    /\ scrollPre.scroll # 0 /\ scroll.scroll = scrollPre.scroll

\* Stop() called during a drag that has requested the grab.
StopDuringDrag ==
    /\ scrollIn.op = "Stop" /\ scrollPre.dragging /\ scrollPre.grab
    /\ scroll = scrollPre

\* C27: in every reachable state of Scroll the fling is not active while a
\* drag-to-scroll is in progress.
C27_DragExcludesFling == ~(scroll.dragging /\ Active(scroll.flinger))

\* A touch Press has just started a drag while a fling was running.
C27_Witness ==
    /\ ScrollHandled("Press") /\ Active(scrollPre.flinger) /\ ~scrollPre.dragging
    /\ scroll.dragging /\ ~Active(scroll.flinger)
    /\ ScrollState(scroll) = "StateDragging"

\* C29: over one touch drag gesture, from the Press Scroll.Update took to the
\* Release of its pointer, under one axis, without wheel events and without
\* an active fling, the distances the calls returned add up to the rounded
\* projection of the Press position minus that of the latest Drag event of
\* the owner at Grabbed priority, and to 0 when there was none.
C29_GestureSum ==
    scrollHist.t.phase \in {"open", "done"} =>
        /\ scrollHist.t.sum = scrollHist.t.press - scrollHist.t.lastG
        /\ ~scrollHist.t.some => scrollHist.t.sum = 0

\* A Drag event at Grabbed priority that is not the first of its gesture to
\* return a distance: the distances returned so far add up to the whole
\* displacement, which is not the distance of this call alone.
C29_Witness ==
    /\ ScrollHandled("Drag") /\ scrollHist.t.phase = "open"
    /\ ~BelowGrabbed(scrollIn.q[1]) /\ scrollIn.q[1].PointerID = scrollPre.pid
    /\ scrollOut # 0 /\ scrollHist.t.sum # scrollOut /\ scrollHist.t.sum # 0
    /\ scrollHist.t.sum = scrollHist.t.press - scrollHist.t.lastG

\* A gesture that returned distances ends with a Release that starts no fling.
GestureDone ==
    /\ ScrollHandled("Release") /\ scrollHist.t.phase = "done"
    /\ scrollHist.t.some /\ scrollHist.t.sum # 0 /\ scrollOut = 0

\* A finished gesture whose Drag events all arrived below Grabbed priority
\* returned nothing although the pointer moved.
GestureWithoutGrab ==
    /\ ScrollHandled("Release") /\ scrollHist.t.phase = "done"
    /\ ~scrollHist.t.some /\ scrollHist.t.sum = 0
    /\ scrollPre.last # Projection(scrollIn.q[1].Position, scrollIn.axis)

\* C28: a Release that arrives while no drag-to-scroll is in progress never
\* starts the fling: it leaves the fling as a frame without events does.
C28_FlingOnlyEndsDrag ==
    (ScrollHandled("Release") /\ ~scrollPre.dragging) =>
        /\ scroll.flinger = Tick(scrollPre.flinger).f
        /\ ~Active(scrollPre.flinger) => ~Active(scroll.flinger)

\* What Scroll.Update does (C28): a second Release of the former owner,
\* after the drag ended and the fling was stopped or ran out, starts the
\* fling again from the samples the estimator still holds.
SecondReleaseStartsFling ==
    /\ ScrollHandled("Release") /\ ~scrollPre.dragging
    /\ scrollIn.q[1].PointerID = scrollPre.pid
    /\ ~Active(scrollPre.flinger) /\ Active(scroll.flinger) /\ scrollOut # 0

\* ------------------------------------------------------------ Fling claims
Abs(x) == IF x >= 0 THEN x ELSE -x

\* The last call was Scroll.Update on a frame without events.
QuietFrame ==
    scrollIn.op = "Update" /\ scrollIn.q = <<>> /\ scrollIn.axis = scrollPre.axis

\* The last call was Scroll.Update on a frame whose only contribution is the
\* fling's: no event, or a Release.
FlingOnlyFrame ==
    /\ scrollIn.op = "Update" /\ scrollIn.axis = scrollPre.axis
    /\ scrollIn.q = <<>> \/ scrollIn.q[1].Kind = "Release"

\* What holds after each frame without events: an active fling contributes a
\* non-zero delta that uses up part of what is left of it, an inactive one
\* contributes zero and stays inactive, and State() is Flinging only while
\* the fling is active.
FlingFrame ==
    QuietFrame =>
        /\ Active(scrollPre.flinger) =>
              /\ scrollOut # 0
              /\ scrollOut = scrollPre.flinger.v - scroll.flinger.v
              /\ Abs(scroll.flinger.v) < Abs(scrollPre.flinger.v)
        /\ ~Active(scrollPre.flinger) => (scrollOut = 0 /\ ~Active(scroll.flinger))
        /\ ~Active(scroll.flinger) => ScrollState(scroll) # "StateFlinging"

\* From one call to the next frame without events the fling's delta does not
\* grow in magnitude.
FlingDecays ==
    (FlingOnlyFrame /\ QuietFrame') => Abs(scrollOut') <= Abs(scrollOut)

HoverGot(kinds) == Len(hoverIn) = 1 /\ hoverIn[1].Kind \in kinds

\* C22: Hover.Update returns true exactly when a pointer that entered while
\* none was inside has not left or been cancelled since, and that pointer is
\* the owner.  While hovering, Enter, Leave and Cancel of another pointer
\* change neither owner nor result; Leave or Cancel of the owner makes the
\* result false; an Enter while not hovering makes its pointer the owner and
\* the result true.
C22_HoverTracksOwner ==
    /\ hoverOut = hoverHist.inside
    /\ hoverOut = hover.entered
    /\ hoverHist.inside => hover.pid = hoverHist.owner
    /\ (HoverGot({"Enter", "Leave", "Cancel"}) /\ hoverPre.entered
          /\ hoverIn[1].PointerID # hoverPre.pid) =>
          (hover = hoverPre /\ hoverOut)
    /\ (HoverGot({"Leave", "Cancel"}) /\ hoverPre.entered
          /\ hoverIn[1].PointerID = hoverPre.pid) =>
          (~hoverOut /\ hover.pid = hoverPre.pid)
    /\ (HoverGot({"Enter"}) /\ ~hoverPre.entered) =>
          (hoverOut /\ hover.pid = hoverIn[1].PointerID)

\* The Leave of another pointer while hovering: still hovering, same owner.
C22_Witness ==
    /\ HoverGot({"Leave"}) /\ hoverPre.entered
    /\ hoverIn[1].PointerID # hoverPre.pid
    /\ hoverOut /\ hover = hoverPre /\ hoverHist.owner = hover.pid

\* -------------------------------------------------------- Draggable claims
\* The Press, Drag and Release events among those d.drag.Update returned in
\* the last Draggable.Update call.
IsPositional(ev) == ev.Kind \in {"Press", "Drag", "Release"}
Positional == SelectSeq(dndFw, IsPositional)

\* C23: after Draggable.Update, Pos() is the zero point when the last Press,
\* Drag or Release event the Drag recognizer forwarded was a Press, the
\* position of that last Drag or Release minus the position of the latest
\* forwarded Press otherwise, and what it was when none was forwarded.
C23_PosRelativeToPress ==
    IF Positional = <<>>
    THEN DraggablePos(dnd) = dndPre
    ELSE IF Positional[Len(Positional)].Kind = "Press"
    THEN DraggablePos(dnd) = Pt(0, 0)
    ELSE DraggablePos(dnd) = Sub(Positional[Len(Positional)].Position, dndHist)

\* A Release away from a Press that was not at the origin.
C23_Witness ==
    /\ Positional # <<>> /\ Positional[Len(Positional)].Kind = "Release"
    /\ dndHist = Pt(3, 0) /\ Positional[Len(Positional)].Position = Pt(3, 1)
    /\ DraggablePos(dnd) = Pt(0, 1) /\ dndPre # DraggablePos(dnd)
====
